---- MODULE Spec2Model ----
(***************************************************************************)
(* Process supervision of llama_server_gui.py.  LlamaServerGUI owns one    *)
(* child process handle (server_process), an output reader thread, a       *)
(* health-check QTimer and a stop QTimer.  Every Qt slot runs to           *)
(* completion on the GUI thread, so each slot is one atomic action.  The   *)
(* child process is the environment: it exits on its own schedule, and a   *)
(* signal sent to it only makes an exit possible, it does not perform it.  *)
(* Time is not modelled, except for the order in which timers that are     *)
(* armed one after the other must expire (see shot_lead and hc_behind).    *)
(* The output reader is a thread of its own: each read of shared state in  *)
(* ServerOutputReader.run is one step, interleaved with the slots.         *)
(***************************************************************************)
EXTENDS Integers, Sequences, FiniteSets, TLC

\* ---- bounds of the model ----
MaxProcs == 2       \* child processes spawned in one behaviour
MaxStops == 2       \* accepted stop_server calls in one behaviour
MaxLines == 2       \* lines a child writes to one of its streams
MaxArgChars == 3    \* characters of the additional arguments text

\* ---- program constants ----
HealthAttempts == 6     \* check_server_health: 6 attempts, then stable
StopAttempts == 25      \* check_server_stopped: 25 attempts, then kill
HealthInterval == 500   \* health_check_timer.start(500)
StopInterval == 200     \* stop_timer.start(200)
KillDelay == 500        \* QTimer.singleShot(500, ...)

None == 0               \* Python None for a handle or a reader reference

\* A path field after .strip(): empty, a path that does not exist, the server
\* binary, the model file.
Paths == {"", "missing", "server", "model"}

\* A text is the sequence of its characters.
Whitespace == {" ", "\t"}
ArgChars == {"a", "-", " ", "\t"}
Texts == UNION {[1..n -> ArgChars] : n \in 0..MaxArgChars}

\* What the widgets of init_ui hold when nothing was typed.
Defaults ==
    [host |-> "127.0.0.1", port |-> 8080, context |-> 2048, ngl |-> 33,
     threads |-> 8, batch |-> 512, additional_args |-> <<>>]

\* The launches tried against the supervisor: every kind of path, the other
\* widgets at their defaults.
LaunchSpecs ==
    [binary_path : {"", "missing", "server"},
     model_path : {"", "missing", "model"},
     host : {Defaults.host}, port : {Defaults.port},
     context : {Defaults.context}, ngl : {Defaults.ngl},
     threads : {Defaults.threads}, batch : {Defaults.batch},
     additional_args : {Defaults.additional_args}]

\* Valid launch specs over the ranges of the widgets.
Settings ==
    [binary_path : {"server"}, model_path : {"model"},
     host : {"127.0.0.1", "0.0.0.0"}, port : {1, 8080},
     context : {128, 2048}, ngl : {-1, 33}, threads : {1, 8},
     batch : {1, 512}, additional_args : Texts]

ExitCodes == {0, 1}
Streams == {"stdout", "stderr"}

\* os.path.exists
exists(path) == path \in {"server", "model"}

Min(a, b) == IF a < b THEN a ELSE b

VARIABLES
    procs,                  \* spawned children, index = pid
    server_process,         \* self.server_process: None or a pid
    output_reader,          \* self.output_reader: None or the pid its reader serves
    reader_running,         \* ServerOutputReader.running, per reader
    health_check_timer,     \* self.health_check_timer: "None", "active", "inactive"
    health_check_attempts,  \* self.health_check_attempts
    stop_timer,             \* self.stop_timer: "None", "active", "inactive"
    stop_attempts,          \* self.stop_attempts
    pending,                \* single shots of cleanup_after_stop not yet fired
    shot_lead,              \* stop timer ticks that fit before the pending single shot
    hc_behind,              \* the health timer was armed after the pending single shot
    aborted,                \* an exception escaped a slot
    runs,                   \* history per child
    hc_ticks,               \* history: still-running ticks of the latest health timer
    esc,                    \* history of the wait since a child's first accepted stop
    stops,                  \* history per accepted stop_server
    pipe,                   \* latest child: lines in the OS pipe of each stream
    buf,                    \* latest child: lines read ahead by the text reader
    written,                \* latest child: lines written to each stream so far
    frag,                   \* per stream: where the beginning of an unfinished line is
    reader_pc,              \* latest ServerOutputReader: position in run()
    readable,               \* latest ServerOutputReader: result of select
    emitted,                \* latest ServerOutputReader: lines passed to output_received.emit, per stream
    launch                  \* the widgets read and the cmd built by the latest launch

\* The output reader thread of the latest child, and the child's two pipes.
relayVars == <<pipe, buf, written, frag, reader_pc, readable, emitted>>

vars == <<procs, server_process, output_reader, reader_running,
          health_check_timer, health_check_attempts, stop_timer,
          stop_attempts, pending, shot_lead, hc_behind, aborted,
          runs, hc_ticks, esc, stops, relayVars, launch>>

\* The fields of LlamaServerGUI, its timers and its child processes.
progVars == <<procs, server_process, output_reader, reader_running,
              health_check_timer, health_check_attempts, stop_timer,
              stop_attempts, pending, shot_lead, hc_behind, aborted>>

histVars == <<runs, hc_ticks, esc, stops>>

Pids == 1..Len(procs)

\* Popen.poll() is None
poll_is_None(p) == procs[p].alive

\* update_button_states: is_running
is_running == server_process # None /\ poll_is_None(server_process)

NewProc == [alive |-> TRUE, code |-> 0, nterm |-> 0, killed |-> FALSE]

\* exit_code is the code of the crash verdict, -1 while there is none.
NewRun == [crashed |-> 0, stable |-> 0, exitInWindow |-> FALSE, stopped |-> FALSE,
           exit_code |-> -1]

\* The wait since a child's first accepted stop is recorded only when `on`.
NoEsc == [on |-> FALSE, pid |-> None, ticks |-> 0, seenExit |-> FALSE]

\* The stop timer that will report for stop k is the one of stop `served`.
NewStop(p, k) == [pid |-> p, served |-> k, graceful |-> 0, forced |-> 0, kills |-> 0]

\* No stream holds the beginning of a line.
NoFrag == [s \in Streams |-> "none"]

\* No command line has been built yet.
NoLaunch ==
    [settings |-> [binary_path |-> "", model_path |-> ""] @@ Defaults,
     cmd |-> <<>>]

InitProg ==
    /\ procs = <<>>
    /\ server_process = None
    /\ output_reader = None
    /\ reader_running = <<>>
    /\ health_check_timer = "None"
    /\ health_check_attempts = 0
    /\ stop_timer = "None"
    /\ stop_attempts = 0
    /\ pending = <<>>
    /\ shot_lead = 0
    /\ hc_behind = FALSE
    /\ aborted = FALSE
    /\ runs = <<>>
    /\ hc_ticks = 0
    /\ stops = <<>>
    /\ pipe = [s \in Streams |-> <<>>]
    /\ buf = [s \in Streams |-> <<>>]
    /\ written = [s \in Streams |-> 0]
    /\ frag = NoFrag
    /\ reader_pc = "none"
    /\ readable = {}
    /\ emitted = [s \in Streams |-> <<>>]
    /\ launch = NoLaunch

Init == InitProg /\ esc = NoEsc

\* The same initial state, with the wait history switched on.
InitEsc == InitProg /\ esc = [NoEsc EXCEPT !.on = TRUE]

\* Dropping the last reference to a Popen object drops its return code.
release(ps, p) ==
    IF p # None THEN [ps EXCEPT ![p].code = 0] ELSE ps

\* start_check without the test of the running process.
start_check_mut(spec) ==
    IF spec.binary_path = "" THEN "NoBinary"
    ELSE IF ~exists(spec.binary_path) THEN "BinaryNotFound"
    ELSE IF spec.model_path = "" THEN "NoModel"
    ELSE IF ~exists(spec.model_path) THEN "ModelNotFound"
    ELSE "ok"

\* A test for whitespace that does not know the tab.
is_space_mut(c) == c = " "

\* str.strip and str.split without arguments: what counts as whitespace
is_space(c) == c \in Whitespace

RECURSIVE lstrip(_)
lstrip(t) ==
    IF t # <<>> /\ is_space(Head(t)) THEN lstrip(Tail(t)) ELSE t

RECURSIVE rstrip(_)
rstrip(t) ==
    IF t # <<>> /\ is_space(t[Len(t)]) THEN rstrip(SubSeq(t, 1, Len(t) - 1))
    ELSE t

\* str.strip()
strip(t) == rstrip(lstrip(t))

\* str.split(): scan the text, closing the current word at each whitespace
\* character and dropping empty words.
RECURSIVE split_from(_, _, _)
split_from(t, i, word) ==
    IF i > Len(t) THEN (IF word = "" THEN <<>> ELSE <<word>>)
    ELSE IF is_space(t[i])
         THEN (IF word = "" THEN <<>> ELSE <<word>>) \o split_from(t, i + 1, "")
         ELSE split_from(t, i + 1, word \o t[i])

split(t) == split_from(t, 1, "")

\* str() of an int
str(n) == ToString(n)

\* start_server: the command line built from the widgets.
build_cmd(st) ==
    <<st.binary_path,
      "-m", st.model_path,
      "--host", st.host,
      "--port", str(st.port),
      "-c", str(st.context),
      "-ngl", str(st.ngl),
      "-t", str(st.threads),
      "-b", str(st.batch)>>
    \o (IF strip(st.additional_args) # <<>>
        THEN split(strip(st.additional_args)) ELSE <<>>)

\* start_check without the test that the model file exists.
start_check_nomodel(spec) ==
    IF spec.binary_path = "" THEN "NoBinary"
    ELSE IF ~exists(spec.binary_path) THEN "BinaryNotFound"
    ELSE IF spec.model_path = "" THEN "NoModel"
    ELSE IF server_process # None /\ poll_is_None(server_process) THEN "AlreadyRunning"
    ELSE "ok"

\* The first violated precondition of start_server, or "ok".
start_check(spec) ==
    IF spec.binary_path = "" THEN "NoBinary"
    ELSE IF ~exists(spec.binary_path) THEN "BinaryNotFound"
    ELSE IF spec.model_path = "" THEN "NoModel"
    ELSE IF ~exists(spec.model_path) THEN "ModelNotFound"
    ELSE IF server_process # None /\ poll_is_None(server_process) THEN "AlreadyRunning"
    ELSE "ok"

\* An except branch that keeps the handle it found.
handle_after_error_mut(held) == held

\* start_server: the handle the except branch leaves in self.server_process.
handle_after_error(held) == None

\* start_server: spawn_ok = FALSE is subprocess.Popen raising.  The except
\* branch shows its error dialog and then resets the handle.
start_server(spec, spawn_ok) ==
    /\ ~aborted
    /\ IF start_check(spec) # "ok" THEN
            UNCHANGED vars
       ELSE IF ~spawn_ok THEN
            /\ server_process' = handle_after_error(server_process)
            /\ procs' = release(procs, server_process)
            /\ launch' = [settings |-> spec, cmd |-> build_cmd(spec)]
            /\ UNCHANGED <<output_reader, reader_running,
                           health_check_timer, health_check_attempts,
                           stop_timer, stop_attempts, pending, shot_lead,
                           hc_behind, aborted, histVars, relayVars>>
       ELSE
            /\ Len(procs) < MaxProcs
            /\ procs' = Append(release(procs, server_process), NewProc)
            /\ server_process' = Len(procs) + 1
            /\ output_reader' = Len(procs) + 1
            /\ reader_running' = Append(reader_running, TRUE)
            /\ health_check_timer' = "active"
            /\ health_check_attempts' = 0
            /\ hc_behind' = (pending # <<>> /\ HealthInterval >= KillDelay)
            /\ runs' = Append(runs, NewRun)
            /\ hc_ticks' = 0
            /\ pipe' = [s \in Streams |-> <<>>]
            /\ buf' = [s \in Streams |-> <<>>]
            /\ written' = [s \in Streams |-> 0]
            /\ frag' = NoFrag
            /\ reader_pc' = "top"
            /\ readable' = {}
            /\ emitted' = [s \in Streams |-> <<>>]
            /\ launch' = [settings |-> spec, cmd |-> build_cmd(spec)]
            /\ UNCHANGED <<stop_timer, stop_attempts, pending, shot_lead,
                           aborted, esc, stops>>

\* stop_check that forgets to poll the held process.
stop_check_mut ==
    IF server_process = None THEN "NotRunning" ELSE "ok"

\* The guard of stop_server.
stop_check ==
    IF server_process = None \/ ~poll_is_None(server_process)
    THEN "NotRunning" ELSE "ok"

\* stop_server: `if self.health_check_timer: self.health_check_timer.stop()`
timer_after_stop(timer) == IF timer # "None" THEN "inactive" ELSE "None"

\* stop_server.  A QTimer that loses its last reference is destroyed, so the
\* new stop timer replaces the old one, which never ticks again.
stop_server ==
    /\ ~aborted
    /\ IF stop_check # "ok" THEN
            UNCHANGED vars
       ELSE
            /\ Len(stops) < MaxStops
            /\ health_check_timer' = timer_after_stop(health_check_timer)
            /\ reader_running' =
                 IF output_reader # None
                 THEN [reader_running EXCEPT ![output_reader] = FALSE]
                 ELSE reader_running
            /\ procs' = [procs EXCEPT ![server_process].nterm = @ + 1]
            /\ stop_timer' = "active"
            /\ stop_attempts' = 0
            /\ stops' = Append(
                 [k \in 1..Len(stops) |->
                    IF stop_timer = "active" /\ stops[k].served = Len(stops)
                    THEN [stops[k] EXCEPT !.served = Len(stops) + 1]
                    ELSE stops[k]],
                 NewStop(server_process, Len(stops) + 1))
            /\ runs' = [runs EXCEPT ![server_process].stopped = TRUE]
            /\ esc' = IF ~esc.on \/ runs[server_process].stopped THEN esc
                      ELSE [esc EXCEPT !.pid = server_process, !.ticks = 0,
                                       !.seenExit = FALSE]
            /\ UNCHANGED <<server_process, output_reader,
                           health_check_attempts, pending, shot_lead,
                           hc_behind, aborted, hc_ticks, relayVars, launch>>

\* cleanup_after_stop: the fields it resets.
cleanup_after_stop ==
    /\ output_reader' = None
    /\ server_process' = None
    /\ procs' = release(procs, server_process)

\* History: the verdict of the stop timer of stop e is the verdict of every
\* accepted stop that timer serves.
Credit(e, verdict) ==
    [k \in 1..Len(stops) |->
        IF stops[k].served # e THEN stops[k]
        ELSE IF verdict = "graceful"
             THEN [stops[k] EXCEPT !.graceful = Min(@ + 1, 2)]
             ELSE [stops[k] EXCEPT !.forced = Min(@ + 1, 2)]]

\* History of a stop timer tick: the child whose stop is awaited has waited
\* one more tick unless its wait is already settled.
TickEsc(seen) ==
    IF esc.on /\ esc.pid # None /\ ~esc.seenExit /\ ~procs[esc.pid].killed
    THEN [esc EXCEPT !.ticks = Min(@ + 1, StopAttempts + 1),
                     !.seenExit = (esc.pid = seen)]
    ELSE esc

\* check_server_stopped: force the kill at this count of attempts
must_kill(attempts) == attempts >= StopAttempts

\* check_server_stopped: one timeout of self.stop_timer.  While a single shot
\* is pending only the ticks that fit into its delay can come before it.
check_server_stopped ==
    /\ ~aborted
    /\ stop_timer = "active"
    /\ pending = <<>> \/ shot_lead > 0
    /\ UNCHANGED <<relayVars, launch>>
    /\ IF server_process = None THEN
            \* None.poll() raises AttributeError, which leaves the slot
            /\ aborted' = TRUE
            /\ UNCHANGED <<procs, server_process, output_reader,
                           reader_running, health_check_timer,
                           health_check_attempts, stop_timer, stop_attempts,
                           pending, shot_lead, hc_behind, histVars>>
       ELSE IF ~poll_is_None(server_process) THEN
            /\ stop_timer' = "inactive"
            /\ cleanup_after_stop
            /\ shot_lead' = IF pending # <<>> THEN shot_lead - 1 ELSE shot_lead
            /\ stops' = Credit(Len(stops), "graceful")
            /\ esc' = TickEsc(server_process)
            /\ UNCHANGED <<reader_running, health_check_timer,
                           health_check_attempts, stop_attempts, pending,
                           hc_behind, aborted, runs, hc_ticks>>
       ELSE
            /\ stop_attempts' = stop_attempts + 1
            /\ esc' = TickEsc(None)
            /\ IF must_kill(stop_attempts + 1) THEN
                    /\ procs' = [procs EXCEPT ![server_process].killed = TRUE]
                    /\ stop_timer' = "inactive"
                    /\ pending' = Append(pending, Len(stops))
                    /\ shot_lead' = (KillDelay - 1) \div StopInterval
                    /\ stops' = [stops EXCEPT ![Len(stops)].kills = Min(@ + 1, 2)]
               ELSE
                    /\ shot_lead' = IF pending # <<>> THEN shot_lead - 1
                                    ELSE shot_lead
                    /\ UNCHANGED <<procs, stop_timer, pending, stops>>
            /\ UNCHANGED <<server_process, output_reader, reader_running,
                           health_check_timer, health_check_attempts,
                           hc_behind, aborted, runs, hc_ticks>>

\* The lambda of QTimer.singleShot(500, ...) in check_server_stopped.
delayed_cleanup ==
    /\ ~aborted
    /\ pending # <<>>
    /\ cleanup_after_stop
    /\ pending' = Tail(pending)
    /\ shot_lead' = 0
    /\ hc_behind' = FALSE
    /\ stops' = Credit(Head(pending), "forced")
    /\ UNCHANGED <<reader_running, health_check_timer,
                   health_check_attempts, stop_timer, stop_attempts,
                   aborted, runs, hc_ticks, esc, relayVars, launch>>

\* A poll() that reports every exit as a clean one.
poll_result_mut(p) == 0

\* check_server_health: poll_result of a child that has exited
poll_result(p) == procs[p].code

\* is_stable that is late by one attempt.
is_stable_mut(attempts) == attempts > HealthAttempts

\* check_server_health: the server counts as stable at this count of attempts
is_stable(attempts) == attempts >= HealthAttempts

\* check_server_health: one timeout of self.health_check_timer.  A health
\* timer armed while a single shot was pending expires after it.
check_server_health ==
    /\ ~aborted
    /\ health_check_timer = "active"
    /\ ~hc_behind
    /\ UNCHANGED <<relayVars, launch>>
    /\ IF server_process = None THEN
            /\ health_check_timer' = "inactive"
            /\ UNCHANGED <<procs, server_process, output_reader,
                           reader_running, health_check_attempts, stop_timer,
                           stop_attempts, pending, shot_lead, hc_behind,
                           aborted, histVars>>
       ELSE IF ~poll_is_None(server_process) THEN
            /\ health_check_timer' = "inactive"
            /\ reader_running' =
                 IF output_reader # None
                 THEN [reader_running EXCEPT ![output_reader] = FALSE]
                 ELSE reader_running
            /\ output_reader' = None
            /\ server_process' = None
            /\ procs' = release(procs, server_process)
            /\ runs' = [runs EXCEPT
                          ![server_process].crashed = Min(@ + 1, 2),
                          ![server_process].exit_code = poll_result(server_process)]
            /\ UNCHANGED <<health_check_attempts, stop_timer, stop_attempts,
                           pending, shot_lead, hc_behind, aborted, hc_ticks,
                           esc, stops>>
       ELSE
            /\ health_check_attempts' = health_check_attempts + 1
            /\ hc_ticks' = Min(hc_ticks + 1, HealthAttempts + 1)
            /\ IF is_stable(health_check_attempts + 1) THEN
                    /\ health_check_timer' = "inactive"
                    /\ runs' = [runs EXCEPT
                                  ![server_process].stable = Min(@ + 1, 2)]
               ELSE
                    /\ UNCHANGED <<health_check_timer, runs>>
            /\ UNCHANGED <<procs, server_process, output_reader,
                           reader_running, stop_timer, stop_attempts, pending,
                           shot_lead, hc_behind, aborted, esc, stops>>

\* The child p ends with return code c: from then on poll() returns c.  Only
\* the Popen object in self.server_process is ever asked for its return code,
\* so the code of a child that is not held is not kept.
\* The end of file ends the unfinished line of stream s of the latest child.
Cut(p, s) == p = Len(procs) /\ frag[s] # "none"

\* The child exits; its pipes reach end of file.
proc_exit(p, c) ==
    /\ procs[p].alive
    /\ procs' = [procs EXCEPT ![p].alive = FALSE,
                              ![p].code = IF p = server_process THEN c ELSE 0]
    /\ runs' = [runs EXCEPT
                  ![p].exitInWindow = (~aborted /\ health_check_timer = "active"
                                        /\ p = Len(procs))]
    /\ UNCHANGED <<server_process, output_reader, reader_running,
                   health_check_timer, health_check_attempts, stop_timer,
                   stop_attempts, pending, shot_lead, hc_behind, aborted,
                   hc_ticks, esc, stops, buf, reader_pc, readable, emitted,
                   launch>>
    /\ pipe' = [s \in Streams |->
                  IF Cut(p, s) THEN Append(pipe[s], written[s] + 1)
                  ELSE pipe[s]]
    /\ written' = [s \in Streams |->
                     IF Cut(p, s) THEN written[s] + 1 ELSE written[s]]
    /\ frag' = [s \in Streams |-> IF p = Len(procs) THEN "none" ELSE frag[s]]

\* The supervisor's variables outside the reader thread's reach.
guiVars == <<procs, server_process, output_reader, reader_running,
             health_check_timer, health_check_attempts, stop_timer,
             stop_attempts, pending, shot_lead, hc_behind, aborted, histVars,
             launch>>

\* The latest child writes its next line to stream s, or the rest of the line
\* it began.
child_write(s) ==
    /\ Len(procs) > 0
    /\ procs[Len(procs)].alive
    /\ written[s] < MaxLines
    /\ written' = [written EXCEPT ![s] = @ + 1]
    /\ pipe' = [pipe EXCEPT ![s] = Append(@, written[s] + 1)]
    /\ frag' = [frag EXCEPT ![s] = "none"]
    /\ UNCHANGED <<guiVars, buf, reader_pc, readable, emitted>>

\* The latest child writes the beginning of its next line to stream s, without
\* the newline.
child_write_part(s) ==
    /\ Len(procs) > 0
    /\ procs[Len(procs)].alive
    /\ written[s] < MaxLines
    /\ frag[s] = "none"
    /\ frag' = [frag EXCEPT ![s] = "pipe"]
    /\ UNCHANGED <<guiVars, pipe, buf, written, reader_pc, readable, emitted>>

\* A loop test that does not look at the flag.
loop_test_mut(running) == TRUE

\* `while self.running`.
loop_test(running) == running

\* ServerOutputReader.run: the test of `while self.running`.
reader_loop ==
    /\ ~aborted
    /\ reader_pc = "top"
    /\ reader_pc' = IF loop_test(reader_running[Len(procs)]) THEN "poll"
                    ELSE "done"
    /\ UNCHANGED <<guiVars, pipe, buf, written, frag, readable, emitted>>

\* ServerOutputReader.run: `if self.process.poll() is not None`.
reader_poll ==
    /\ ~aborted
    /\ reader_pc = "poll"
    /\ reader_pc' = IF poll_is_None(Len(procs)) THEN "select" ELSE "drain"
    /\ UNCHANGED <<guiVars, pipe, buf, written, frag, readable, emitted>>

\* select.select: a stream is readable when its pipe holds data or is at end
\* of file; what the text reader has read ahead is invisible to select.
\* With nothing readable the call returns empty after its 0.1 s timeout.
reader_select ==
    /\ ~aborted
    /\ reader_pc = "select"
    /\ readable' = {s \in Streams :
                       \/ pipe[s] # <<>>
                       \/ frag[s] = "pipe"
                       \/ ~poll_is_None(Len(procs))}
    /\ reader_pc' = "stdout"
    /\ UNCHANGED <<guiVars, pipe, buf, written, frag, emitted>>

\* select.select raises ValueError or OSError: run() breaks out of its loop
\* and returns.
reader_error ==
    /\ ~aborted
    /\ reader_pc = "select"
    /\ reader_pc' = "failed"
    /\ UNCHANGED <<guiVars, pipe, buf, written, frag, readable, emitted>>

\* readline() waits for the newline or the end of file when all it can get is
\* the beginning of a line.
blocked(s) ==
    /\ s \in readable
    /\ buf[s] \o pipe[s] = <<>>
    /\ frag[s] # "none"

\* A readline() that leaves the line it returned in the buffer.
after_line_mut(data) == data

\* What the text reader holds after readline() returned the first line.
after_line(data) == Tail(data)

\* readline() of a text stream: it takes what the pipe holds into its buffer
\* and returns the first line, or '' at end of file.  The line is emitted.
reader_readline(s, next_pc) ==
    /\ ~aborted
    /\ reader_pc = s
    /\ ~blocked(s)
    /\ reader_pc' = next_pc
    /\ readable' = readable \ {s}
    /\ IF s \in readable /\ buf[s] \o pipe[s] # <<>> THEN
            /\ emitted' = [emitted EXCEPT ![s] = Append(@, Head(buf[s] \o pipe[s]))]
            /\ buf' = [buf EXCEPT ![s] = after_line(buf[s] \o pipe[s])]
            /\ pipe' = [pipe EXCEPT ![s] = <<>>]
            /\ frag' = [frag EXCEPT ![s] = IF @ = "pipe" THEN "buf" ELSE @]
       ELSE UNCHANGED <<emitted, buf, pipe, frag>>
    /\ UNCHANGED <<guiVars, written>>

\* The lines `for line in stream` yields up to end of file.
rest(s) == buf[s] \o pipe[s]

\* ServerOutputReader.read_remaining_output, then the break out of run().
reader_drain ==
    /\ ~aborted
    /\ reader_pc = "drain"
    /\ emitted' = [s \in Streams |-> emitted[s] \o rest(s)]
    /\ buf' = [s \in Streams |-> <<>>]
    /\ pipe' = [s \in Streams |-> <<>>]
    /\ reader_pc' = "done"
    /\ UNCHANGED <<guiVars, written, frag, readable>>

ChildWrite == \E s \in Streams : child_write(s)
ChildWritePart == \E s \in Streams : child_write_part(s)
ReaderStdout == reader_readline("stdout", "stderr")
ReaderStderr == reader_readline("stderr", "top")

\* Popen can only raise in a call that reaches it.
StartServer ==
    \E spec \in LaunchSpecs :
        \E spawn_ok \in (IF start_check(spec) = "ok" THEN BOOLEAN ELSE {TRUE}) :
            start_server(spec, spawn_ok)
ProcExit == \E p \in Pids, c \in ExitCodes : proc_exit(p, c)

Next ==
    \/ StartServer
    \/ stop_server
    \/ check_server_stopped
    \/ delayed_cleanup
    \/ check_server_health
    \/ ProcExit

Spec == Init /\ [][Next]_vars

\* The program while nobody stops the server, with its output reader thread
\* and the child's output.
RelayNext ==
    \/ StartServer
    \/ check_server_health
    \/ ProcExit
    \/ ChildWrite
    \/ ChildWritePart
    \/ reader_loop
    \/ reader_poll
    \/ reader_select
    \/ reader_error
    \/ ReaderStdout
    \/ ReaderStderr
    \/ reader_drain

RelaySpec == Init /\ [][RelayNext]_vars

\* The reader thread and the child's output while the server is started and
\* stopped.  The reader sees of the supervisor only its flag and the child's
\* exit, which stop_server and the child's exit set here; the timer ticks are
\* left out.
StopRelayNext ==
    \/ StartServer
    \/ stop_server
    \/ ProcExit
    \/ ChildWrite
    \/ ChildWritePart
    \/ reader_loop
    \/ reader_poll
    \/ reader_select
    \/ reader_error
    \/ ReaderStdout
    \/ ReaderStderr
    \/ reader_drain

StopRelaySpec == Init /\ [][StopRelayNext]_vars

\* The scheduler runs the reader thread whenever it can take a step.
RelayFairSpec ==
    /\ StopRelaySpec
    /\ WF_vars(reader_loop)
    /\ WF_vars(reader_poll)
    /\ WF_vars(reader_select)
    /\ WF_vars(ReaderStdout)
    /\ WF_vars(ReaderStderr)
    /\ WF_vars(reader_drain)

\* The first start_server of the application, for every valid setting of the
\* widgets.
ArgStart ==
    /\ launch = NoLaunch
    /\ \E st \in Settings : \E spawn_ok \in BOOLEAN : start_server(st, spawn_ok)

ArgSpec == Init /\ [][ArgStart]_vars

\* The same program, observed with the wait history.
EscSpec == InitEsc /\ [][Next]_vars

\* The Qt event loop delivers every timeout that stays due.
FairSpec ==
    /\ Spec
    /\ WF_vars(check_server_stopped)
    /\ WF_vars(delayed_cleanup)
    /\ WF_vars(check_server_health)

TypeOK ==
    /\ server_process \in 0..MaxProcs
    /\ output_reader \in 0..MaxProcs
    /\ Len(procs) <= MaxProcs
    /\ Len(runs) = Len(procs)
    /\ Len(reader_running) = Len(procs)
    /\ Len(stops) <= MaxStops
    /\ Len(pending) <= 1
    /\ health_check_timer \in {"None", "active", "inactive"}
    /\ stop_timer \in {"None", "active", "inactive"}
    /\ health_check_attempts \in 0..HealthAttempts
    /\ hc_ticks = health_check_attempts
    /\ stop_attempts \in 0..StopAttempts
    /\ reader_pc \in {"none", "top", "poll", "select", "stdout", "stderr",
                      "drain", "done", "failed"}
    /\ readable \subseteq Streams
    /\ \A s \in Streams :
          /\ written[s] \in 0..MaxLines
          /\ frag[s] \in {"none", "pipe", "buf"}
          /\ Len(buf[s]) + Len(pipe[s]) <= written[s]
    /\ \A s \in Streams : Len(emitted[s]) <= MaxLines
    /\ launch.cmd # <<>> => launch.cmd = build_cmd(launch.settings)

Range(q) == {q[i] : i \in 1..Len(q)}

\* The launch spec passes the file checks of start_server.
files_ok(spec) == exists(spec.binary_path) /\ exists(spec.model_path)

ValidationErrors == {"NoBinary", "BinaryNotFound", "NoModel", "ModelNotFound"}

\* Idle or Crashed: no handle is held, or the held child has exited.
NotRunningState == server_process = None \/ ~procs[server_process].alive

\* Stopping: a stop timer is active or its delayed cleanup is still to come.
Stopping == ~aborted /\ (stop_timer = "active" \/ pending # <<>>)

\* No step of start_server taken while the server runs changes the program.
StartKeepsState ==
    [][(is_running /\ \E spec \in LaunchSpecs, spawn_ok \in BOOLEAN :
                         start_server(spec, spawn_ok))
         => UNCHANGED progVars]_vars

\* C1 as stated: start_server while the held child is alive fails with the
\* already-running error for every launch spec, valid or not, and changes
\* nothing.
C1_Original ==
    /\ [](is_running =>
            \A spec \in LaunchSpecs : start_check(spec) = "AlreadyRunning")
    /\ StartKeepsState

\* C1 amended: start_server while the held child is alive always fails and
\* changes nothing; the error is the already-running error when the launch
\* spec passes the file checks and the error of the first failed file check
\* otherwise.
C1_StartWhileRunningFails ==
    /\ [](is_running =>
            \A spec \in LaunchSpecs :
                IF files_ok(spec)
                THEN start_check(spec) = "AlreadyRunning"
                ELSE start_check(spec) \in ValidationErrors)
    /\ StartKeepsState

C1_Witness ==
    /\ is_running
    /\ health_check_timer = "active"
    /\ health_check_attempts > 0
    /\ \E spec \in LaunchSpecs : start_check(spec) = "AlreadyRunning"
    /\ \E spec \in LaunchSpecs : start_check(spec) \in ValidationErrors

\* C2: stop_server while no handle is held or the held child has exited fails
\* with the not-running error and changes nothing: no terminate signal, no
\* reader flagged, no stop timer started, a running health timer left running.
C2_StopWhileNotRunningFails ==
    /\ [](NotRunningState => stop_check = "NotRunning")
    /\ [][(NotRunningState /\ stop_server) => UNCHANGED progVars]_vars

C2_Witness ==
    /\ server_process # None
    /\ ~procs[server_process].alive
    /\ health_check_timer = "active"
    /\ reader_running[output_reader]
    /\ stop_check = "NotRunning"

\* The stop timer of stop e can report no more: it is neither ticking nor
\* waiting for its delayed cleanup, or the application is gone.
Settled(e) ==
    \/ aborted
    \/ /\ ~(e = Len(stops) /\ stop_timer = "active")
       /\ e \notin Range(pending)

\* C3: every accepted stop_server gets exactly one of the two verdicts of
\* cleanup_after_stop, 'stopped successfully' or 'killed (forced)': never
\* both, and none is missing once its stop timer can report no more.
C3_ExactlyOneStopVerdict ==
    \A k \in 1..Len(stops) :
        /\ stops[k].graceful + stops[k].forced <= 1
        /\ Settled(stops[k].served) => stops[k].graceful + stops[k].forced = 1

\* The 25th tick of the stop timer finds the child it was started for alive.
GraceOver ==
    /\ ~aborted
    /\ stop_timer = "active"
    /\ pending = <<>> \/ shot_lead > 0
    /\ server_process # None
    /\ server_process = stops[Len(stops)].pid
    /\ poll_is_None(server_process)
    /\ stop_attempts + 1 = StopAttempts

\* The stop timer of stop k sent the kill to the child that stop k had
\* terminated.
KilledFor(k) ==
    /\ stops[k].kills = 1
    /\ procs[stops[k].pid].killed

\* C4: when 25 ticks of the stop timer have all found the stopped child
\* alive, the 25th tick sends it the kill signal and schedules the cleanup,
\* and the 'killed (forced)' verdict of that stop follows: the stop is never
\* left with the kill sent, nothing more to come and no verdict.
C4_KillThenStoppedForcibly ==
    /\ [][(GraceOver /\ check_server_stopped) =>
            /\ procs'[server_process].killed
            /\ pending' = Append(pending, Len(stops))
            /\ stop_timer' = "inactive"]_vars
    /\ [](\A k \in 1..Len(stops) :
            (KilledFor(k) /\ Settled(k)) => stops[k].forced = 1)

\* The health timer armed for child p ticks no more.
MonitorGone(p) ==
    aborted \/ health_check_timer # "active" \/ p # Len(procs)

\* C5: a child that exits while its health timer is still ticking gets
\* exactly one crash verdict and no stable verdict.
C5_ExitInWindowOneCrashVerdict ==
    \A p \in Pids :
        runs[p].exitInWindow =>
            /\ runs[p].stable = 0
            /\ runs[p].crashed <= 1
            /\ MonitorGone(p) => runs[p].crashed = 1

\* C6: the run of the latest start_server has its stable verdict exactly when
\* six ticks of its health timer have found it alive, and no run ever has
\* more than one stable verdict.
C6_StableExactlyOnce ==
    /\ \A p \in Pids : runs[p].stable <= 1
    /\ server_process \in {None, Len(procs)}
    /\ Len(procs) > 0 =>
          (runs[Len(procs)].stable = 1 <=> hc_ticks >= HealthAttempts)

C6_Witness ==
    /\ is_running
    /\ hc_ticks = HealthAttempts
    /\ health_check_timer = "inactive"
    /\ runs[server_process].stable = 1

\* C7: at most one spawned child is alive.
C7_AtMostOneChildAlive ==
    Cardinality({p \in Pids : procs[p].alive}) <= 1

\* C8: while a stop is in progress start_server is rejected for every launch
\* spec and no process is spawned.
C8_StartRejectedWhileStopping ==
    [][Stopping =>
         /\ \A spec \in LaunchSpecs, spawn_ok \in BOOLEAN :
                start_server(spec, spawn_ok) => UNCHANGED vars
         /\ Len(procs') = Len(procs)]_vars

\* C9: while the stop timer is active and the child alive, stop_server is
\* rejected: no second terminate signal, no second stop timer, no reset of
\* the attempt counter.
C9_StopRejectedWhileStopping ==
    [][(Stopping /\ stop_timer = "active" /\ is_running /\ stop_server)
         => UNCHANGED <<procs, stop_timer, stop_attempts, stops>>]_vars

\* C10: 25 stop timer ticks after the first accepted stop of a child, a tick
\* has seen the child exited or the kill signal has been sent to it.
C10_SettledWithin25Ticks ==
    (esc.on /\ esc.pid # None /\ esc.ticks >= StopAttempts)
        => (esc.seenExit \/ procs[esc.pid].killed)
\* The emit calls of the latest reader for line n of stream s.
Emits(s, n) == Cardinality({i \in 1..Len(emitted[s]) : emitted[s][i] = n})

\* C11: when the output reader of a child that nobody stopped has left
\* run(), every line the child wrote to stdout or stderr has been emitted
\* exactly once.
C11_EveryLineEmittedOnce ==
    (reader_pc = "done" /\ ~runs[Len(procs)].stopped) =>
        \A s \in Streams : \A n \in 1..written[s] : Emits(s, n) = 1
\* C12: start_server with a launch spec whose binary path or model path is
\* empty or names no existing file fails with a validation error and changes
\* nothing: no child, no reader, no health timer, the same state as before.
C12_InvalidSpecChangesNothing ==
    /\ [](\A spec \in LaunchSpecs :
            ~files_ok(spec) => start_check(spec) \in ValidationErrors)
    /\ [][(\E spec \in LaunchSpecs :
              ~files_ok(spec) /\ start_server(spec, TRUE))
            => UNCHANGED vars]_vars

\* No handle is held after a crash verdict, and a launch spec with a missing
\* model file is refused there.
C12_Witness ==
    /\ server_process = None
    /\ Len(procs) > 0
    /\ runs[Len(procs)].crashed = 1
    /\ start_check([binary_path |-> "server", model_path |-> "missing"])
          = "ModelNotFound"
    /\ start_check([binary_path |-> "server", model_path |-> "model"]) = "ok"

\* C13: when Popen raises in start_server, no handle is held afterwards, no
\* child and no reader were created, the health timer and its counter are
\* the ones found, and start_server accepts a valid launch spec again.
C13_SpawnFailureBackToIdle ==
    [][(\E spec \in LaunchSpecs :
          start_check(spec) = "ok" /\ start_server(spec, FALSE)) =>
            /\ server_process' = None
            /\ Len(procs') = Len(procs)
            /\ UNCHANGED <<output_reader, reader_running, health_check_timer,
                           health_check_attempts>>
            /\ \A again \in LaunchSpecs :
                  files_ok(again) => (start_check(again) = "ok")']_vars

\* Only the except branch of start_server drops the handle and keeps the
\* reader reference.
C13_Witness ==
    /\ ~aborted
    /\ server_process = None
    /\ output_reader # None
    /\ \E spec \in LaunchSpecs : start_check(spec) = "ok"
\* A tick of the health timer that finds the held child exited.
CrashTick ==
    /\ ~aborted
    /\ health_check_timer = "active"
    /\ ~hc_behind
    /\ server_process # None
    /\ ~poll_is_None(server_process)

\* C14: the crash verdict is given for the child of the start_server that
\* armed the health timer and carries that child's exit code; after it no
\* handle is held, the child's reader has been told to stop and is no longer
\* referenced, and the health timer is inactive.
C14_CrashVerdictCodeAndState ==
    [][(CrashTick /\ check_server_health) =>
         /\ server_process = Len(procs)
         /\ runs'[Len(procs)].crashed = runs[Len(procs)].crashed + 1
         /\ runs'[Len(procs)].exit_code = procs[Len(procs)].code
         /\ server_process' = None
         /\ output_reader' = None
         /\ ~reader_running'[Len(procs)]
         /\ health_check_timer' = "inactive"]_vars

C14_Witness ==
    /\ Len(procs) > 0
    /\ runs[Len(procs)].crashed = 1
    /\ runs[Len(procs)].exit_code = 1
    /\ server_process = None
    /\ output_reader = None
    /\ ~reader_running[Len(procs)]
    /\ health_check_timer = "inactive"
\* C15: when the delayed cleanup reports 'killed (forced)', every child that
\* was sent the kill signal has exited.
C15_KilledChildGoneAtVerdict ==
    [][delayed_cleanup =>
         \A p \in Pids : procs[p].killed => ~procs[p].alive]_vars
\* Position i of text t starts a word: a character that is no whitespace, at
\* the start of the text or after whitespace.
WordStart(t, i) == t[i] \notin Whitespace /\ (i = 1 \/ t[i - 1] \in Whitespace)

WordStarts(t) == {i \in 1..Len(t) : WordStart(t, i)}

\* The last position of the word that starts at i.
WordEnd(t, i) ==
    CHOOSE j \in i..Len(t) :
        /\ \A k \in i..j : t[k] \notin Whitespace
        /\ j = Len(t) \/ t[j + 1] \in Whitespace

\* The start of the k-th word of t.
KthStart(t, k) ==
    CHOOSE i \in WordStarts(t) :
        Cardinality({j \in WordStarts(t) : j < i}) = k - 1

RECURSIVE Cat(_, _, _)
Cat(t, i, j) == IF i > j THEN "" ELSE t[i] \o Cat(t, i + 1, j)

\* The words of t, in the order of the text.
Words(t) ==
    [k \in 1..Cardinality(WordStarts(t)) |->
        Cat(t, KthStart(t, k), WordEnd(t, KthStart(t, k)))]

\* The values of the fixed fields, in the order of the spec.
FieldValues(st) ==
    <<st.model_path, st.host, ToString(st.port), ToString(st.context),
      ToString(st.ngl), ToString(st.threads), ToString(st.batch)>>

FieldFlags == <<"-m", "--host", "--port", "-c", "-ngl", "-t", "-b">>

\* C16 as stated: the built vector begins with the model path, the seven
\* field values follow one another in the fixed order, and the words of the
\* additional arguments come after them.
C16_Original ==
    launch.cmd # <<>> =>
        /\ launch.cmd[1] = launch.settings.model_path
        /\ SubSeq(launch.cmd, 1, 7) = FieldValues(launch.settings)
        /\ SubSeq(launch.cmd, 8, Len(launch.cmd))
             = Words(launch.settings.additional_args)

\* C16 amended: the built vector begins with the binary path; then come the
\* seven fields in the fixed order, each value preceded by its flag, the
\* model path first; then the words of the additional arguments in the order
\* of the text, and nothing when the text is empty or all whitespace.
C16_FlagValuePairsThenWords ==
    launch.cmd # <<>> =>
        /\ launch.cmd[1] = launch.settings.binary_path
        /\ Len(launch.cmd) =
             15 + Cardinality(WordStarts(launch.settings.additional_args))
        /\ \A f \in 1..7 :
              /\ launch.cmd[2 * f] = FieldFlags[f]
              /\ launch.cmd[2 * f + 1] = FieldValues(launch.settings)[f]
        /\ SubSeq(launch.cmd, 16, Len(launch.cmd))
             = Words(launch.settings.additional_args)
        /\ (\A i \in 1..Len(launch.settings.additional_args) :
                launch.settings.additional_args[i] \in Whitespace)
              => Len(launch.cmd) = 15

\* A launch whose additional arguments hold two words separated by a tab.
C16_Witness ==
    /\ Len(launch.cmd) = 17
    /\ launch.settings.ngl = -1
    /\ \E i \in 1..Len(launch.settings.additional_args) :
          launch.settings.additional_args[i] = "\t"
\* The verdicts given so far by health timers and by stop timers.
HealthVerdicts(rs) ==
    Cardinality({<<p, v, n>> \in Pids \X {"crashed", "stable"} \X (1..2) :
                    n <= rs[p][v]})

\* This step is a tick on which the health timer stops itself.
HealthSelfStop ==
    /\ check_server_health
    /\ health_check_timer = "active"
    /\ health_check_timer' = "inactive"

\* This step is a tick on which the stop timer stops itself.
StopSelfStop ==
    /\ check_server_stopped
    /\ stop_timer = "active"
    /\ stop_timer' = "inactive"

\* C17: a tick on which the health timer stops itself gives exactly one
\* verdict, crashed or stable; a tick on which the stop timer stops itself
\* gives the 'stopped successfully' verdict or hands the 'killed (forced)'
\* verdict to the single shot it schedules.  No tick stops a timer silently.
C17_NoSilentSelfStop ==
    /\ [][HealthSelfStop =>
            HealthVerdicts(runs') = HealthVerdicts(runs) + 1]_vars
    /\ [][StopSelfStop =>
            \/ \E k \in 1..Len(stops) :
                  stops'[k].graceful = stops[k].graceful + 1
            \/ pending' = Append(pending, Len(stops))]_vars

\* C18: while no handle is held, no spawned child is alive.
C18_NoChildWithoutHandle ==
    server_process = None => \A p \in Pids : ~procs[p].alive

\* C19: a tick of the health timer polls the child spawned by the
\* start_server that armed it, and a tick of the stop timer polls, and
\* kills, the child that the stop_server that armed it terminated.
C19_TicksBoundToTheirChild ==
    /\ [][(check_server_health /\ server_process # None)
            => server_process = Len(procs)]_vars
    /\ [][(check_server_stopped /\ server_process # None)
            => server_process = stops[Len(stops)].pid]_vars

\* This step sends the kill signal to a child.
KillSent == \E p \in Pids : ~procs[p].killed /\ procs'[p].killed

\* The attempt counter of the stop timer counts from 0 at each accepted
\* stop_server the ticks that found the held child alive.
CountsAliveTicks ==
    [][stop_attempts' # stop_attempts =>
         \/ stop_server /\ stop_attempts' = 0
         \/ /\ check_server_stopped
            /\ is_running
            /\ stop_attempts' = stop_attempts + 1]_vars

\* The kill is sent on the tick that brings the counter to 25, at most once
\* for an accepted stop, and not for a stop whose timer saw the exit.
KillOnlyAtTheBound ==
    /\ [][KillSent => (check_server_stopped /\ stop_attempts' = StopAttempts)]_vars
    /\ [](\A k \in 1..Len(stops) :
            /\ stops[k].kills <= 1
            /\ stops[k].graceful >= 1 => stops[k].kills = 0)

\* C20: the kill signal is sent only on the tick of the stop timer that
\* brings the attempt counter to 25, after 25 ticks since the accepted
\* stop_server have each found the child of that stop alive; at most once
\* for an accepted stop, and never after a tick of its timer saw the exit.
C20_KillOnlyAfter25AliveTicks ==
    /\ CountsAliveTicks
    /\ KillOnlyAtTheBound
    /\ [][KillSent => server_process = stops[Len(stops)].pid]_vars
\* This step gives a verdict of cleanup_after_stop: the tick of the stop
\* timer that finds the held child exited, or the delayed cleanup.
StopVerdict ==
    \/ delayed_cleanup
    \/ /\ check_server_stopped
       /\ server_process # None
       /\ ~poll_is_None(server_process)

\* C21: after a verdict of cleanup_after_stop no handle and no reader are
\* held, no stop timer, delayed cleanup or health timer is still to fire, and
\* start_server accepts a valid launch spec.
C21_IdleAfterStopVerdict ==
    [][StopVerdict =>
         /\ server_process' = None
         /\ output_reader' = None
         /\ stop_timer' # "active"
         /\ pending' = <<>>
         /\ health_check_timer' # "active"
         /\ \A spec \in LaunchSpecs :
               files_ok(spec) => (start_check(spec) = "ok")']_vars

\* Once stop_server was accepted for a run, the run gets no stable and no
\* crash verdict any more.
NoHealthVerdictAfterStop ==
    [][\A p \in Pids :
         runs[p].stopped =>
            /\ runs'[p].stable = runs[p].stable
            /\ runs'[p].crashed = runs[p].crashed]_vars

\* C22: an accepted stop_server ends the health verdicts of its run, and no
\* child that was sent the terminate or the kill signal gets a crash verdict.
C22_NoCrashVerdictForSignalledExit ==
    /\ NoHealthVerdictAfterStop
    /\ [](\A p \in Pids :
            (procs[p].nterm > 0 \/ procs[p].killed) => runs[p].crashed = 0)

\* The reader of child p has a reason to end: its flag is clear or its child
\* has exited.
MustEnd(p) ==
    /\ Len(procs) = p
    /\ reader_pc \notin {"none", "done", "failed"}
    /\ (~reader_running[p] \/ ~procs[p].alive)

\* The reader waits in readline() for the rest of a line.
InReadline == reader_pc \in Streams /\ blocked(reader_pc)

\* The reader of child p waits in readline() while child p is running.
WaitsForChild(p) == Len(procs) = p /\ InReadline /\ procs[p].alive

\* The reader of child p has left run(), or child p and its reader have been
\* replaced.
Ended(p) == reader_pc \in {"done", "failed"} \/ Len(procs) > p

\* After a loop test that finds the flag clear the thread leaves the loop,
\* after a poll that finds the child exited it drains and leaves.
NoFurtherIteration ==
    [][(Len(procs') = Len(procs)) =>
          /\ (reader_pc = "top" /\ ~reader_running[Len(procs)])
                => reader_pc' \in {"top", "done"}
          /\ (reader_pc = "poll" /\ ~procs[Len(procs)].alive)
                => reader_pc' \in {"poll", "drain"}
          /\ (reader_pc = "drain") => reader_pc' \in {"drain", "done"}]_vars

\* A failing select ends run() with nothing emitted and no exception.
SilentOnError ==
    [][reader_error =>
          /\ reader_pc' = "failed"
          /\ emitted' = emitted
          /\ aborted' = aborted]_vars

C24_OrderPerStream ==
    \A s \in Streams :
        /\ \A i \in 1..Len(emitted[s]) : emitted[s][i] \in 1..written[s]
        /\ \A i, j \in 1..Len(emitted[s]) :
              i < j => emitted[s][i] < emitted[s][j]

C24_Witness ==
    /\ reader_pc = "done"
    /\ procs[Len(procs)].code = 1
    /\ \A s \in Streams : emitted[s] = <<1, 2>>

\* Child p, the latest, has the stable verdict; nobody stopped it and no
\* signal was sent to it.
StableRun(p) ==
    /\ Len(procs) = p
    /\ runs[p].stable = 1
    /\ ~runs[p].stopped
    /\ procs[p].nterm = 0
    /\ ~procs[p].killed

\* The stable child p has exited on its own and its handle and reader are
\* still held.
Stale(p) ==
    /\ StableRun(p)
    /\ ~procs[p].alive
    /\ server_process = p
    /\ output_reader = p

\* A start_server call gets past its checks.
StartAccepted ==
    \E spec \in LaunchSpecs, spawn_ok \in BOOLEAN :
        start_check(spec) = "ok" /\ start_server(spec, spawn_ok)

\* C25: after the stable verdict of the latest child the health timer is not
\* active; when that child then exits on its own the handle and the reader
\* stay held and no verdict is emitted until the next accepted start_server;
\* in that state stop_server is rejected as not running and start_server with
\* existing files is accepted, and a successful spawn puts a new child and a
\* new reader in their place.
C25_StaleHandleAfterStable ==
    /\ [](\A p \in Pids : StableRun(p) => health_check_timer # "active")
    /\ [][\A p \in Pids :
            (StableRun(p) /\ procs[p].alive /\ ~procs'[p].alive)
               => Stale(p)']_vars
    /\ [][\A p \in Pids :
            (Stale(p) /\ ~StartAccepted) =>
               /\ Stale(p)'
               /\ runs' = runs
               /\ stops' = stops]_vars
    /\ [](\A p \in Pids :
            Stale(p) =>
               /\ stop_check = "NotRunning"
               /\ \A spec \in LaunchSpecs :
                     files_ok(spec) => start_check(spec) = "ok")
    /\ [][\A p \in Pids :
            (Stale(p) /\ Len(procs') > p) =>
               /\ server_process' = p + 1
               /\ output_reader' = p + 1
               /\ procs'[p + 1].alive
               /\ reader_running'[p + 1]
               /\ reader_pc' = "top"
               /\ health_check_timer' = "active"]_vars

\* C26: while the stop timer is active a process handle is held, and no tick
\* of check_server_stopped has found server_process None.
C26_TickHoldsHandle ==
    /\ stop_timer = "active" => server_process # None
    /\ ~aborted
====
